---------------------------- MODULE Spec2Model ----------------------------
(***************************************************************************)
(* Ticket booking backend (backend/index.ts): POST /api/book run by        *)
(* concurrent requests against the PostgreSQL tables tickets, orders and   *)
(* order_items.                                                            *)
(*                                                                         *)
(* Node runs a handler without interruption between two awaits, so one     *)
(* action is: the database executes the awaited query, and the handler     *)
(* runs on to its next await (or to its response).  A transaction's        *)
(* INSERTs and UPDATEs are kept in txn[c] until COMMIT publishes them      *)
(* (READ COMMITTED: other sessions see committed rows only); SELECT ...    *)
(* FOR UPDATE and UPDATE wait while another transaction holds the row.     *)
(* Money is counted in cents.  GET /api/orders/:userId and GET             *)
(* /api/catalog are one call each; their plain SELECTs read committed rows *)
(* and take no row lock.                                                   *)
(***************************************************************************)
EXTENDS Integers, Sequences, FiniteSets, TLC

\* ---------------------------------------------------------------- bounds
NumCalls == 2          \* book requests that arrive (each served once)
MaxCartLen == 2        \* longest cartItems array of a request
MaxQty == 2            \* largest quantity a cart item asks for
VipSeed == 2           \* seeded total_quantity of VIP (scaled down)
GaSeed == 1            \* seeded total_quantity of GA (scaled down)
MaxClock == 1          \* ticks of the database clock
MaxSeedRuns == 2       \* runs of the seed after the first
MaxShown == 2          \* largest quantityAvailable a catalog fetch returns

\* ------------------------------------------------------ program constants
VipPriceCents == 10000
GaPriceCents == 1000
FrontRowPriceCents == 5000
PoolMax == 20

Calls == 1..NumCalls
NoCall == 0
Tiers == {"VIP", "GA"}
RequestTiers == Tiers \cup {"NOPE"}
Quantities == (0 - 1)..MaxQty
UserIds == {"", "test-user-1", "user-1"}
TestUsers == {"test-user-1"}

CartItem == [tier : RequestTiers, quantity : Quantities]
\* the carts requests carry: the empty cart, every cart of one item, and the
\* longer carts that ask for one ticket per item
Carts ==
    {<<>>}
    \cup {<<i>> : i \in CartItem}
    \cup UNION {[1..n -> [tier : RequestTiers, quantity : {1}]] : n \in 2..MaxCartLen}
\* req.body: cartKind tells whether cartItems is absent, not an array, or an array
Requests ==
    [userId : UserIds, cartKind : {"array"}, cartItems : Carts]
    \cup [userId : UserIds, cartKind : {"missing", "notArray"}, cartItems : {<<>>}]

SeedTickets ==
    [t \in Tiers |->
        IF t = "VIP"
        THEN [price_usd |-> VipPriceCents, quantity_available |-> VipSeed,
              total_quantity |-> VipSeed]
        ELSE [price_usd |-> GaPriceCents, quantity_available |-> GaSeed,
              total_quantity |-> GaSeed]]

VARIABLES
    tickets,        \* committed rows of table tickets, by tier
    orders,         \* committed rows of table orders, in commit order
    order_items,    \* committed rows of table order_items, in commit order
    rowLock,        \* tier -> the call whose transaction holds the row lock
    checkedOut,     \* calls that hold a pool client
    pc,             \* where each call's handler stands
    req,            \* the request body of each call
    idx,            \* position of the running for-loop
    totalAmount,    \* the handler's totalAmount
    orderItems,     \* the handler's orderItems array
    paymentSuccess, \* "none" until simulatePayment returned, then "accept"/"decline"
    payCount,       \* number of times the call invoked simulatePayment
    txn,            \* the open transaction of the call's client
    pending,        \* the response the handler sends once its ROLLBACK returned
    resp,           \* the response sent
    clock,          \* the database clock (CURRENT_TIMESTAMP)
    listing,        \* the call of GET /api/orders/:userId
    catalog,        \* the call of GET /api/catalog
    seedRuns,       \* runs of the seed after the first
    page            \* the state of the catalog page in the browser

db == <<tickets, orders, order_items>>
locals == <<idx, totalAmount, orderItems, paymentSuccess, payCount>>
book == <<rowLock, checkedOut, pc, req, locals, txn, pending, resp>>
reads == <<clock, listing, catalog>>
aside == <<seedRuns, page>>
vars == <<tickets, orders, order_items, rowLock, checkedOut, pc, req, idx,
          totalAmount, orderItems, paymentSuccess, payCount, txn, pending, resp,
          clock, listing, catalog, seedRuns, page>>

\* start: the transaction's CURRENT_TIMESTAMP, the clock at BEGIN
NoTxn == [open |-> FALSE, start |-> 0, order |-> <<>>, items |-> <<>>,
          dec |-> [t \in Tiers |-> 0]]
\* the two read calls before their requests arrive
NoListing == [pc |-> "idle", userId |-> "", userOrders |-> <<>>, fetched |-> {},
              items |-> <<>>, status |-> 0, data |-> <<>>]
NoCatalog == [pc |-> "idle", status |-> 0, data |-> <<>>]
\* the catalog page before its first effect: useState([]) for tickets and
\* cart, {} for quantities, true for loading, null for error and user.
\* effects counts the runs of the mount effect, loaded says that tickets holds
\* the rows of a fetch, fetches counts the catalog fetches under way, latest
\* is the data of the last fetch that completed
NoPage == [effects |-> 0, loading |-> TRUE, error |-> FALSE, loaded |-> FALSE,
           tickets |-> [t \in Tiers |-> 0], cart |-> <<>>,
           quantities |-> [t \in Tiers |-> 0], fetches |-> 0,
           latest |-> [t \in Tiers |-> 0]]
\* a response: the HTTP status, the kind of error and the details its text or
\* data carry (message: the query whose rejection a 500 reports)
NoResp == [status |-> 0, error |-> "none", tier |-> "", requested |-> 0,
           available |-> 0, message |-> "", orderId |-> NoCall, userId |-> "",
           totalAmount |-> 0, items |-> <<>>, orderStatus |-> ""]

Response(status, error) == [NoResp EXCEPT !.status = status, !.error = error]

Set(f, c, v) == [f EXCEPT ![c] = v]

\* a validation that forgets the test cartItems.length === 0
ValidRequest_NoEmptyCheck(r) ==
    /\ r.userId # ""
    /\ r.cartKind = "array"

\* if (!userId || !cartItems || !Array.isArray(cartItems) || cartItems.length === 0)
ValidRequest(r) ==
    /\ r.userId # ""
    /\ r.cartKind = "array"
    /\ Len(r.cartItems) # 0

\* a plain SELECT in place of SELECT ... FOR UPDATE: never waits for a row lock
RowAvailable_NoWait(c, t) == TRUE

\* a lock on the whole table in place of the row: waits while any row is locked
RowAvailable_TableLock(c, t) == \A u \in Tiers : rowLock[u] \in {NoCall, c}

\* FOR UPDATE (and UPDATE) proceeds when no other transaction holds the row
RowAvailable(c, t) == rowLock[t] \in {NoCall, c}

\* quantity_available as call c's transaction reads it: the committed row
\* with the transaction's own updates applied
TxAvailable(c, t) == tickets[t].quantity_available - txn[c].dec[t]

\* the comparison written with >= in place of >
Insufficient_GE(quantity, available) == quantity >= available

\* if (item.quantity > available)
Insufficient(quantity, available) == quantity > available

\* a loop that is left after its first item
LoopContinues_Break(c, k) == k < 1 /\ k < Len(req[c].cartItems)

\* for (const item of cartItems): is there an item after position k
LoopContinues(c, k) == k < Len(req[c].cartItems)

\* the results simulatePayment can return for a user
simulatePayment(userId) ==
    IF userId \in TestUsers THEN {TRUE} ELSE {TRUE, FALSE}

\* an early return that sends its response without the ROLLBACK
EarlyReturn_NoRollback(c, r) ==
    /\ pc' = Set(pc, c, "done")
    /\ resp' = Set(resp, c, r)
    /\ checkedOut' = checkedOut \ {c}
    /\ pending' = pending

\* await client.query('ROLLBACK'); return res.status(..).json(..)
EarlyReturn(c, r) ==
    /\ pc' = Set(pc, c, "ROLLBACK")
    /\ pending' = Set(pending, c, r)
    /\ UNCHANGED <<resp, checkedOut>>

\* a handler that never takes the payment-failure branch
PaymentFailed_Ignored(ok) == FALSE

\* if (!paymentSuccess)
PaymentFailed(ok) == ~ok

\* const paymentSuccess = simulatePayment(userId, totalAmount);
\* if (!paymentSuccess) { ROLLBACK; return 400 }  else go on to the order insert
Payment(c) ==
    \E ok \in simulatePayment(req[c].userId) :
        /\ payCount' = Set(payCount, c, payCount[c] + 1)
        /\ paymentSuccess' = Set(paymentSuccess, c, IF ok THEN "accept" ELSE "decline")
        /\ IF PaymentFailed(ok)
           THEN EarlyReturn(c, Response(400, "PaymentFailed"))
           ELSE /\ pc' = Set(pc, c, "insertOrder")
                /\ UNCHANGED <<pending, resp, checkedOut>>

\* a commit that overwrites the order tables with the transaction's own rows
Published_Replace(c, stmt) ==
    IF stmt = "COMMIT"
    THEN <<[t \in Tiers |->
              [tickets[t] EXCEPT !.quantity_available = @ - txn[c].dec[t]]],
           txn[c].order,
           txn[c].items>>
    ELSE <<tickets, orders, order_items>>

\* rows a transaction's end leaves in the tables
Published(c, stmt) ==
    IF stmt = "COMMIT"
    THEN <<[t \in Tiers |->
              [tickets[t] EXCEPT !.quantity_available = @ - txn[c].dec[t]]],
           orders \o txn[c].order,
           order_items \o txn[c].items>>
    ELSE <<tickets, orders, order_items>>

\* COMMIT or ROLLBACK executed by the database: the transaction's writes are
\* published or dropped, and all its row locks are released
EndTransaction(c, stmt) ==
    /\ tickets' = Published(c, stmt)[1]
    /\ orders' = Published(c, stmt)[2]
    /\ order_items' = Published(c, stmt)[3]
    /\ txn' = Set(txn, c, NoTxn)
    /\ rowLock' = [t \in Tiers |-> IF rowLock[t] = c THEN NoCall ELSE rowLock[t]]

\* a handler that returns without releasing its client
Finish_NoRelease(c, r) ==
    /\ pc' = Set(pc, c, "done")
    /\ resp' = Set(resp, c, r)
    /\ checkedOut' = checkedOut
    /\ idx' = Set(idx, c, 0)
    /\ totalAmount' = Set(totalAmount, c, 0)
    /\ orderItems' = Set(orderItems, c, <<>>)

\* the handler returned: its locals are gone; finally { client.release() }
Finish(c, r) ==
    /\ pc' = Set(pc, c, "done")
    /\ resp' = Set(resp, c, r)
    /\ checkedOut' = checkedOut \ {c}
    /\ idx' = Set(idx, c, 0)
    /\ totalAmount' = Set(totalAmount, c, 0)
    /\ orderItems' = Set(orderItems, c, <<>>)

Init ==
    /\ tickets = SeedTickets
    /\ orders = <<>>
    /\ order_items = <<>>
    /\ rowLock = [t \in Tiers |-> NoCall]
    /\ checkedOut = {}
    /\ pc = [c \in Calls |-> "idle"]
    /\ req = [c \in Calls |-> [userId |-> "", cartKind |-> "missing", cartItems |-> <<>>]]
    /\ idx = [c \in Calls |-> 0]
    /\ totalAmount = [c \in Calls |-> 0]
    /\ orderItems = [c \in Calls |-> <<>>]
    /\ paymentSuccess = [c \in Calls |-> "none"]
    /\ payCount = [c \in Calls |-> 0]
    /\ txn = [c \in Calls |-> NoTxn]
    /\ pending = [c \in Calls |-> NoResp]
    /\ resp = [c \in Calls |-> NoResp]
    /\ clock = 0
    /\ listing = NoListing
    /\ catalog = NoCatalog
    /\ seedRuns = 0
    /\ page = NoPage

\* app.post('/api/book'): the request arrives and is validated
Receive(c, r) ==
    /\ UNCHANGED <<reads, aside>>
    /\ pc[c] = "idle"
    /\ c > 1 => pc[c - 1] # "idle"
    /\ req' = Set(req, c, r)
    /\ IF ValidRequest(r)
       THEN /\ pc' = Set(pc, c, "getClient")
            /\ UNCHANGED resp
       ELSE /\ pc' = Set(pc, c, "done")
            /\ resp' = Set(resp, c, Response(400, "InvalidRequest"))
    /\ UNCHANGED <<db, rowLock, checkedOut, locals, txn, pending>>

\* const client = await getClient(); then client.query('BEGIN') is sent
GetClient(c) ==
    /\ UNCHANGED <<reads, aside>>
    /\ pc[c] = "getClient"
    /\ Cardinality(checkedOut) < PoolMax
    /\ checkedOut' = checkedOut \cup {c}
    /\ pc' = Set(pc, c, "BEGIN")
    /\ UNCHANGED <<db, rowLock, req, locals, txn, pending, resp>>

\* pool.connect() rejects: the await stands outside the try block
GetClientFail(c) ==
    /\ UNCHANGED <<reads, aside>>
    /\ pc[c] = "getClient"
    /\ pc' = Set(pc, c, "rejected")
    /\ UNCHANGED <<db, rowLock, checkedOut, req, locals, txn, pending, resp>>

\* the rejection leaves the async handler: Express 5 hands it to its error
\* handler, which answers 500; Express 4 leaves the request unanswered, which
\* is the call staying at "rejected"
ExpressError(c) ==
    /\ UNCHANGED <<reads, aside>>
    /\ pc[c] = "rejected"
    /\ pc' = Set(pc, c, "done")
    /\ resp' = Set(resp, c, Response(500, "Unhandled"))
    /\ UNCHANGED <<db, rowLock, checkedOut, req, locals, txn, pending>>

\* BEGIN returned; totalAmount = 0, orderItems = []; the loop starts
Begin(c) ==
    /\ UNCHANGED <<reads, aside>>
    /\ pc[c] = "BEGIN"
    /\ txn' = Set(txn, c, [NoTxn EXCEPT !.open = TRUE, !.start = clock])
    /\ totalAmount' = Set(totalAmount, c, 0)
    /\ orderItems' = Set(orderItems, c, <<>>)
    /\ IF LoopContinues(c, 0)
       THEN /\ idx' = Set(idx, c, 1)
            /\ pc' = Set(pc, c, "lock")
            /\ UNCHANGED <<paymentSuccess, payCount, pending, resp, checkedOut>>
       ELSE /\ idx' = idx
            /\ Payment(c)
    /\ UNCHANGED <<db, rowLock, req>>

\* a subtotal that leaves the quantity out
ItemTotal_NoQuantity(priceUsd, quantity) == priceUsd

\* const itemTotal = parseFloat(priceUsd) * item.quantity, in cents.  The seeded
\* prices are whole dollars and the quantities integers, so the doubles the
\* handler adds up are exact and totalAmount.toFixed(2) prints them exactly.
ItemTotal(priceUsd, quantity) == priceUsd * quantity

\* SELECT ... FROM tickets WHERE tier = $1 FOR UPDATE returned, and the loop body
LockRead(c) ==
    /\ UNCHANGED <<reads, aside>>
    /\ pc[c] = "lock"
    /\ LET item == req[c].cartItems[idx[c]] IN
       IF item.tier \notin Tiers
       THEN \* result.rows.length === 0
            /\ EarlyReturn(c, [Response(400, "InvalidTier") EXCEPT !.tier = item.tier])
            /\ UNCHANGED <<rowLock, locals>>
       ELSE /\ RowAvailable(c, item.tier)
            /\ rowLock' = [rowLock EXCEPT ![item.tier] = c]
            /\ LET available == TxAvailable(c, item.tier)
                   priceUsd == tickets[item.tier].price_usd
               IN  IF Insufficient(item.quantity, available)
                   THEN /\ EarlyReturn(c, [Response(409, "InsufficientStock") EXCEPT
                                               !.tier = item.tier,
                                               !.requested = item.quantity,
                                               !.available = available])
                        /\ UNCHANGED locals
                   ELSE /\ totalAmount' =
                               Set(totalAmount, c,
                                   totalAmount[c] + ItemTotal(priceUsd, item.quantity))
                        /\ orderItems' =
                               Set(orderItems, c,
                                   Append(orderItems[c],
                                          [tier |-> item.tier, quantity |-> item.quantity,
                                           priceAtPurchase |-> priceUsd]))
                        /\ IF LoopContinues(c, idx[c])
                           THEN /\ idx' = Set(idx, c, idx[c] + 1)
                                /\ UNCHANGED <<pc, paymentSuccess, payCount, pending,
                                               resp, checkedOut>>
                           ELSE /\ idx' = idx
                                /\ Payment(c)
    /\ UNCHANGED <<db, req, txn>>

\* an UPDATE that takes one ticket per order item, whatever the item's quantity
UpdateQuery_ByOne(c, tier, quantity) == [txn[c] EXCEPT !.dec[tier] = @ + 1]

\* UPDATE tickets SET quantity_available = quantity_available - $2 WHERE tier = $1,
\* inside transaction c
UpdateQuery(c, tier, quantity) == [txn[c] EXCEPT !.dec[tier] = @ + quantity]

\* an order insert that writes status PENDING
OrderRow_Pending(c) ==
    [id |-> c, user_id |-> req[c].userId, total_amount |-> totalAmount[c],
     status |-> "PENDING", created_at |-> txn[c].start]

\* the row INSERT INTO orders (user_id, total_amount, status)
\* VALUES (userId, totalAmount.toFixed(2), 'PAID') adds; its uuid is the call's,
\* its created_at defaults to CURRENT_TIMESTAMP, the start of the transaction
OrderRow(c) ==
    [id |-> c, user_id |-> req[c].userId, total_amount |-> totalAmount[c],
     status |-> "PAID", created_at |-> txn[c].start]

\* an item insert that passes item.quantity where the price belongs
ItemRow_WrongPrice(c, item) ==
    [order_id |-> c, ticket_tier |-> item.tier, quantity |-> item.quantity,
     price_at_purchase |-> item.quantity]

\* the row INSERT INTO order_items (order_id, ticket_tier, quantity,
\* price_at_purchase) VALUES (orderId, item.tier, item.quantity, item.priceAtPurchase) adds
ItemRow(c, item) ==
    [order_id |-> c, ticket_tier |-> item.tier, quantity |-> item.quantity,
     price_at_purchase |-> item.priceAtPurchase]

\* INSERT INTO orders ... RETURNING id returned
InsertOrder(c) ==
    /\ UNCHANGED <<reads, aside>>
    /\ pc[c] = "insertOrder"
    /\ txn' = Set(txn, c, [txn[c] EXCEPT !.order = <<OrderRow(c)>>])
    /\ idx' = Set(idx, c, 1)
    /\ pc' = Set(pc, c, IF Len(orderItems[c]) = 0 THEN "COMMIT" ELSE "insertItem")
    /\ UNCHANGED <<db, rowLock, checkedOut, req, totalAmount, orderItems,
                   paymentSuccess, payCount, pending, resp>>

\* INSERT INTO order_items ... returned
InsertItem(c) ==
    /\ UNCHANGED <<reads, aside>>
    /\ pc[c] = "insertItem"
    /\ LET item == orderItems[c][idx[c]] IN
       txn' = Set(txn, c, [txn[c] EXCEPT !.items = Append(@, ItemRow(c, item))])
    /\ pc' = Set(pc, c, "update")
    /\ UNCHANGED <<db, rowLock, checkedOut, req, locals, pending, resp>>

\* UPDATE tickets SET quantity_available = quantity_available - $2 returned
UpdateInventory(c) ==
    /\ UNCHANGED <<reads, aside>>
    /\ pc[c] = "update"
    /\ LET item == orderItems[c][idx[c]] IN
       /\ RowAvailable(c, item.tier)
       /\ rowLock' = [rowLock EXCEPT ![item.tier] = c]
       /\ txn' = Set(txn, c, UpdateQuery(c, item.tier, item.quantity))
    /\ IF idx[c] < Len(orderItems[c])
       THEN /\ idx' = Set(idx, c, idx[c] + 1)
            /\ pc' = Set(pc, c, "insertItem")
       ELSE /\ idx' = idx
            /\ pc' = Set(pc, c, "COMMIT")
    /\ UNCHANGED <<db, checkedOut, req, totalAmount, orderItems, paymentSuccess,
                   payCount, pending, resp>>

\* COMMIT returned; res.status(201).json({orderId, userId, totalAmount, items, status})
Commit(c) ==
    /\ UNCHANGED <<reads, aside>>
    /\ pc[c] = "COMMIT"
    /\ EndTransaction(c, "COMMIT")
    /\ Finish(c, [Response(201, "none") EXCEPT !.orderId = c,
                                                !.userId = req[c].userId,
                                                !.totalAmount = totalAmount[c],
                                                !.items = orderItems[c],
                                                !.orderStatus = "PAID"])
    /\ UNCHANGED <<req, paymentSuccess, payCount, pending>>

\* the ROLLBACK of an early return returned; the prepared response is sent
Rollback(c) ==
    /\ UNCHANGED <<reads, aside>>
    /\ pc[c] = "ROLLBACK"
    /\ EndTransaction(c, "ROLLBACK")
    /\ Finish(c, pending[c])
    /\ UNCHANGED <<req, paymentSuccess, payCount, pending>>

QueryPcs == {"BEGIN", "lock", "insertOrder", "insertItem", "update", "COMMIT", "ROLLBACK"}

\* the awaited query rejects; control enters the catch block (the locals of the
\* try block are out of scope), which sends ROLLBACK
Fault(c) ==
    /\ UNCHANGED <<reads, aside>>
    /\ pc[c] \in QueryPcs
    /\ pc' = Set(pc, c, "catch")
    /\ idx' = Set(idx, c, 0)
    /\ totalAmount' = Set(totalAmount, c, 0)
    /\ orderItems' = Set(orderItems, c, <<>>)
    /\ pending' = Set(pending, c, [Response(500, "Fault") EXCEPT !.message = pc[c]])
    /\ UNCHANGED <<db, rowLock, checkedOut, req, paymentSuccess, payCount, txn, resp>>

\* a catch block that ends the transaction with COMMIT
CatchStatement_Commit == "COMMIT"

\* await client.query('ROLLBACK').catch(() => {});
CatchStatement == "ROLLBACK"

\* the ROLLBACK of the catch block returned; res.status(500).json({error: error.message})
Catch(c) ==
    /\ UNCHANGED <<reads, aside>>
    /\ pc[c] = "catch"
    /\ EndTransaction(c, CatchStatement)
    /\ Finish(c, pending[c])
    /\ UNCHANGED <<req, paymentSuccess, payCount, pending>>

Next ==
    \E c \in Calls :
        \/ \E r \in Requests : Receive(c, r)
        \/ GetClient(c)
        \/ GetClientFail(c)
        \/ ExpressError(c)
        \/ Begin(c)
        \/ LockRead(c)
        \/ InsertOrder(c)
        \/ InsertItem(c)
        \/ UpdateInventory(c)
        \/ Commit(c)
        \/ Rollback(c)
        \/ Fault(c)
        \/ Catch(c)

Spec == Init /\ [][Next]_vars

\* ------------------------------------------- bookings while prices change
\* prices a tier's price_usd is set to
Prices == {VipPriceCents, FrontRowPriceCents, GaPriceCents}

\* the requests of the price specification: carts of known tiers, one ticket per item
PriceCarts ==
    UNION {[1..n -> [tier : Tiers, quantity : {1}]] : n \in 1..MaxCartLen}
PriceRequests ==
    [userId : {"test-user-1", "user-1"}, cartKind : {"array"}, cartItems : PriceCarts]

\* UPDATE tickets SET price_usd = p WHERE tier = t, run against the database
\* outside the booking handler: price_usd is an ordinary column, and the UPDATE
\* waits for the row lock like every other writer
ChangePrice(t, p) ==
    /\ UNCHANGED <<reads, aside>>
    /\ rowLock[t] = NoCall
    /\ p # tickets[t].price_usd
    /\ tickets' = [tickets EXCEPT ![t].price_usd = p]
    /\ UNCHANGED <<orders, order_items, rowLock, checkedOut, pc, req, locals, txn,
                   pending, resp>>

NextPrice ==
    \/ \E c \in Calls :
          \/ \E r \in PriceRequests : Receive(c, r)
          \/ GetClient(c)
          \/ GetClientFail(c)
          \/ ExpressError(c)
          \/ Begin(c)
          \/ LockRead(c)
          \/ InsertOrder(c)
          \/ InsertItem(c)
          \/ UpdateInventory(c)
          \/ Commit(c)
          \/ Rollback(c)
          \/ Fault(c)
          \/ Catch(c)
    \/ \E t \in Tiers, p \in Prices : ChangePrice(t, p)

SpecPrice == Init /\ [][NextPrice]_vars

\* ----------------------------------------------------- the read endpoints
\* the :userId of GET /api/orders/:userId
ReadUsers == {"test-user-1", "user-1"}

\* the bookings that run beside the reads: one ticket of one known tier
ReadRequests ==
    [userId : {"test-user-1", "user-1"}, cartKind : {"array"},
     cartItems : {<<[tier |-> t, quantity |-> 1]>> : t \in Tiers}]

\* time passes: CURRENT_TIMESTAMP of later transactions is later
Tick ==
    /\ clock < MaxClock
    /\ clock' = clock + 1
    /\ UNCHANGED <<aside, db, book, listing, catalog>>

\* an ordering that puts the oldest order first
NewestFirst_OldestFirst(a, b) == a.created_at <= b.created_at

\* .orderBy(desc(orders.createdAt)): row a may stand before row b
NewestFirst(a, b) == a.created_at >= b.created_at

\* a query without its where clause
WhereUser_Any(row, userId) == TRUE

\* .where(eq(orders.userId, userId))
WhereUser(row, userId) == row.user_id = userId

\* .where(eq(orderItems.orderId, order.id))
WhereOrder(row, id) == row.order_id = id

\* a catalog query that locks the rows it reads (FOR SHARE)
SelectReady_ForShare(t) == rowLock[t] = NoCall

\* db.select(...).from(tickets): a plain SELECT waits for no row lock
SelectReady(t) == TRUE

\* the results db.select().from(orders).where(...).orderBy(desc(createdAt)) can
\* return: the committed orders of the user, rows of equal created_at in any order
SelectOrders(userId) ==
    LET K == {k \in DOMAIN orders : WhereUser(orders[k], userId)}
        n == Cardinality(K)
    IN  {[i \in 1..n |-> orders[g[i]]] :
            g \in {f \in [1..n -> K] :
                      \A i, j \in 1..n :
                          i < j => f[i] # f[j] /\ NewestFirst(orders[f[i]], orders[f[j]])}}

\* db.select().from(orderItems).where(eq(orderItems.orderId, order.id))
SelectItems(id) == SelectSeq(order_items, LAMBDA row : WhereOrder(row, id))

\* userOrders.map(order => ({...order, items}))
OrdersWithItems(userOrders, items) ==
    [k \in DOMAIN userOrders |-> [order |-> userOrders[k], items |-> items[k]]]

\* app.get('/api/orders/:userId'): the request arrives, the orders query is sent
ListArrive(u) ==
    /\ listing.pc = "idle"
    /\ listing' = [NoListing EXCEPT !.pc = "orders", !.userId = u]
    /\ UNCHANGED <<aside, db, book, clock, catalog>>

\* the orders query returned; an empty result is answered at once, otherwise
\* Promise.all sends one item query per order
ListOrders ==
    /\ listing.pc = "orders"
    /\ Cardinality(checkedOut) < PoolMax
    /\ \E userOrders \in SelectOrders(listing.userId) :
          listing' =
              IF Len(userOrders) = 0
              THEN [listing EXCEPT !.pc = "done", !.status = 200, !.data = <<>>]
              ELSE [listing EXCEPT !.pc = "items", !.userOrders = userOrders,
                                   !.items = [k \in DOMAIN userOrders |-> <<>>]]
    /\ UNCHANGED <<aside, db, book, clock, catalog>>

\* the item query of order k returned; after the last one the response is sent
ListItems(k) ==
    /\ listing.pc = "items"
    /\ k \in DOMAIN listing.userOrders \ listing.fetched
    /\ Cardinality(checkedOut) < PoolMax
    /\ LET items == [listing.items EXCEPT ![k] = SelectItems(listing.userOrders[k].id)]
           fetched == listing.fetched \cup {k}
       IN  listing' =
              IF fetched = DOMAIN listing.userOrders
              THEN [listing EXCEPT !.pc = "done", !.status = 200,
                                   !.fetched = fetched, !.items = items,
                                   !.data = OrdersWithItems(listing.userOrders, items)]
              ELSE [listing EXCEPT !.fetched = fetched, !.items = items]
    /\ UNCHANGED <<aside, db, book, clock, catalog>>

\* a query of the listing rejects: catch, 500 'Failed to fetch user orders'
ListFault ==
    /\ listing.pc \in {"orders", "items"}
    /\ listing' = [listing EXCEPT !.pc = "done", !.status = 500, !.data = <<>>]
    /\ UNCHANGED <<aside, db, book, clock, catalog>>

\* a read that sees the decrements of transactions still open
VisibleAvailable_Dirty(t) ==
    tickets[t].quantity_available - txn[1].dec[t] - txn[NumCalls].dec[t]

\* the quantity_available a statement outside the booking transactions reads:
\* READ COMMITTED shows it the committed row
VisibleAvailable(t) == tickets[t].quantity_available

\* app.get('/api/catalog'): the request arrives, the catalog query is sent
CatalogArrive ==
    /\ catalog.pc = "idle"
    /\ catalog' = [catalog EXCEPT !.pc = "select"]
    /\ UNCHANGED <<aside, db, book, clock, listing>>

\* the catalog query returned: tier, priceUsd, quantityAvailable of every row
CatalogSelect ==
    /\ catalog.pc = "select"
    /\ Cardinality(checkedOut) < PoolMax
    /\ \A t \in Tiers : SelectReady(t)
    /\ catalog' = [pc |-> "done", status |-> 200,
                   data |-> [t \in Tiers |->
                                [tier |-> t, priceUsd |-> tickets[t].price_usd,
                                 quantityAvailable |-> VisibleAvailable(t)]]]
    /\ UNCHANGED <<aside, db, book, clock, listing>>

\* the catalog query rejects: catch, 500 'Failed to fetch ticket catalog'
CatalogFault ==
    /\ catalog.pc = "select"
    /\ catalog' = [pc |-> "done", status |-> 500, data |-> <<>>]
    /\ UNCHANGED <<aside, db, book, clock, listing>>

NextRead ==
    \/ \E c \in Calls :
          \/ \E r \in ReadRequests : Receive(c, r)
          \/ GetClient(c)
          \/ GetClientFail(c)
          \/ ExpressError(c)
          \/ Begin(c)
          \/ LockRead(c)
          \/ InsertOrder(c)
          \/ InsertItem(c)
          \/ UpdateInventory(c)
          \/ Commit(c)
          \/ Rollback(c)
          \/ Fault(c)
          \/ Catch(c)
    \/ Tick
    \/ \E u \in ReadUsers : ListArrive(u)
    \/ ListOrders
    \/ \E k \in 1..NumCalls : ListItems(k)
    \/ ListFault
    \/ CatalogArrive
    \/ CatalogSelect
    \/ CatalogFault

SpecRead == Init /\ [][NextRead]_vars

\* the catalog read beside bookings of one or more tiers
NextCatalog ==
    \/ \E c \in Calls :
          \/ \E r \in PriceRequests : Receive(c, r)
          \/ GetClient(c)
          \/ GetClientFail(c)
          \/ ExpressError(c)
          \/ Begin(c)
          \/ LockRead(c)
          \/ InsertOrder(c)
          \/ InsertItem(c)
          \/ UpdateInventory(c)
          \/ Commit(c)
          \/ Rollback(c)
          \/ Fault(c)
          \/ Catch(c)
    \/ CatalogArrive
    \/ CatalogSelect
    \/ CatalogFault

SpecCatalog == Init /\ [][NextCatalog]_vars

\* the rows of the seed migration (02_schema_seed.sql) and of the seed script
\* (seedDatabase), whose quantities are larger than the migration's
SeedRows ==
    {SeedTickets,
     [t \in Tiers |->
         [price_usd |-> SeedTickets[t].price_usd,
          quantity_available |-> SeedTickets[t].quantity_available * 10,
          total_quantity |-> SeedTickets[t].total_quantity * 10]]}

\* INSERT ... ON CONFLICT (tier) DO UPDATE: the row of the statement replaces
\* the row of the table
OnConflictDoNothing_Upsert(table, rows) ==
    [t \in DOMAIN table \cup DOMAIN rows |->
        IF t \in DOMAIN rows THEN rows[t] ELSE table[t]]

\* INSERT ... ON CONFLICT (tier) DO NOTHING / .onConflictDoNothing(): a row
\* whose tier is already in the table is skipped, the others are inserted
OnConflictDoNothing(table, rows) ==
    [t \in DOMAIN table \cup DOMAIN rows |->
        IF t \in DOMAIN table THEN table[t] ELSE rows[t]]

\* the seed runs again, as its own statement beside the bookings; it finds
\* the conflicting rows through the unique index and does not wait for their
\* row locks
Seed(rows) ==
    /\ seedRuns < MaxSeedRuns
    /\ seedRuns' = seedRuns + 1
    /\ tickets' = OnConflictDoNothing(tickets, rows)
    /\ UNCHANGED <<orders, order_items, book, reads, page>>

NextSeed ==
    \/ \E c \in Calls :
          \/ \E r \in PriceRequests : Receive(c, r)
          \/ GetClient(c)
          \/ GetClientFail(c)
          \/ ExpressError(c)
          \/ Begin(c)
          \/ LockRead(c)
          \/ InsertOrder(c)
          \/ InsertItem(c)
          \/ UpdateInventory(c)
          \/ Commit(c)
          \/ Rollback(c)
          \/ Fault(c)
          \/ Catch(c)
    \/ \E rows \in SeedRows : Seed(rows)

SpecSeed == Init /\ [][NextSeed]_vars

\* ------------------------------------------------------- the catalog page
\* cart.find(item => item.tier === tier): the position of the item, 0 if none
CartFind(cart, t) ==
    IF \E k \in DOMAIN cart : cart[k].tier = t
    THEN CHOOSE k \in DOMAIN cart : cart[k].tier = t
    ELSE 0

\* the quantity of tier t in the page's cart
InCart(cart, t) == IF CartFind(cart, t) = 0 THEN 0 ELSE cart[CartFind(cart, t)].quantity

\* cart.filter(item => item.tier !== tier)
CartWithout(cart, t) == SelectSeq(cart, LAMBDA item : item.tier # t)

\* cart.map(item => item.tier === tier ? {...item, quantity} : item)
CartWith(cart, t, q) ==
    [k \in DOMAIN cart |-> IF cart[k].tier = t THEN [cart[k] EXCEPT !.quantity = q]
                                               ELSE cart[k]]

\* Math.min(ticket.quantityAvailable, Math.max(0, parseInt(e.target.value) || 0))
ClampQuantity(available, v) ==
    IF v < 0 THEN 0 ELSE IF v > available THEN available ELSE v

\* Math.max(0, n)
AtLeastZero(n) == IF n < 0 THEN 0 ELSE n

\* the table of tiers is rendered: !loading && !error && tickets.length > 0
ListShown == ~page.loading /\ ~page.error /\ page.loaded

\* the typed values of a quantity input
Typed == (0 - 1)..(MaxShown + 1)

PageOnly == UNCHANGED <<db, book, reads, seedRuns>>

\* useEffect(..., [user, fetchTickets]): the first run sets the user and calls
\* fetchTickets; the change of user runs the effect again, which calls
\* fetchTickets a second time.  fetchTickets begins with setLoading(true)
MountEffect ==
    /\ page.effects < 2
    /\ page' = [page EXCEPT !.effects = @ + 1, !.loading = TRUE, !.fetches = @ + 1]
    /\ PageOnly

\* a fetchTickets under way completes with the catalog's rows:
\* setTickets(data.data); setError(null); finally setLoading(false)
FetchDone(data) ==
    /\ page.fetches > 0
    /\ page' = [page EXCEPT !.fetches = @ - 1, !.tickets = data, !.latest = data,
                            !.loaded = TRUE, !.error = FALSE, !.loading = FALSE]
    /\ PageOnly

\* a fetchTickets under way fails: setError(message); finally setLoading(false)
FetchFail ==
    /\ page.fetches > 0
    /\ page' = [page EXCEPT !.fetches = @ - 1, !.error = TRUE, !.loading = FALSE]
    /\ PageOnly

\* the quantity input of a row changes; it is disabled at quantityAvailable 0
handleQuantityChange(t, v) ==
    /\ ListShown
    /\ page.tickets[t] # 0
    /\ page' = [page EXCEPT !.quantities[t] = ClampQuantity(page.tickets[t], v)]
    /\ PageOnly

\* the Add to Cart button of a row, enabled when quantityAvailable is not 0
\* and the row's quantity is positive
addToCart(t) ==
    /\ ListShown
    /\ page.tickets[t] # 0 /\ page.quantities[t] > 0
    /\ LET quantity == page.quantities[t]
           previousQuantity == InCart(page.cart, t)
       IN  IF quantity <= 0 \/ quantity > page.tickets[t]
           THEN page' = page
           ELSE page' = [page EXCEPT
                    !.cart = IF CartFind(page.cart, t) # 0
                             THEN CartWith(page.cart, t, quantity)
                             ELSE Append(page.cart, [tier |-> t, quantity |-> quantity]),
                    !.quantities[t] = 0,
                    !.tickets[t] = AtLeastZero(@ - (quantity - previousQuantity))]
    /\ PageOnly

\* the Remove button of a cart row
removeFromCart(t) ==
    /\ CartFind(page.cart, t) # 0
    /\ page' = [page EXCEPT !.cart = CartWithout(page.cart, t),
                            !.tickets[t] = @ + InCart(page.cart, t)]
    /\ PageOnly

\* the - and + buttons of a cart row: updateCartItemQuantity(tier, quantity - 1)
\* when quantity > 1, updateCartItemQuantity(tier, quantity + 1)
updateCartItemQuantity(t, newQuantity) ==
    /\ CartFind(page.cart, t) # 0
    /\ \/ newQuantity = InCart(page.cart, t) + 1
       \/ newQuantity = InCart(page.cart, t) - 1 /\ InCart(page.cart, t) > 1
    /\ LET quantityDifference == newQuantity - InCart(page.cart, t)
       IN  IF quantityDifference > page.tickets[t]
           THEN page' = page
           ELSE page' = [page EXCEPT !.cart = CartWith(page.cart, t, newQuantity),
                                    !.tickets[t] = @ - quantityDifference]
    /\ PageOnly

NextPage ==
    \/ MountEffect
    \/ \E data \in [Tiers -> 0..MaxShown] : FetchDone(data)
    \/ FetchFail
    \/ \E t \in Tiers, v \in Typed : handleQuantityChange(t, v)
    \/ \E t \in Tiers : addToCart(t)
    \/ \E t \in Tiers : removeFromCart(t)
    \/ \E t \in Tiers, q \in 1..(3 * MaxShown + 1) : updateCartItemQuantity(t, q)

SpecPage == Init /\ [][NextPage]_vars

TypeOK ==
    /\ pc \in [Calls -> {"idle", "getClient", "rejected", "catch", "done"} \cup QueryPcs]
    /\ \A c \in Calls : req[c] \in Requests \/ pc[c] = "idle"
    /\ checkedOut \subseteq Calls
    /\ rowLock \in [Tiers -> Calls \cup {NoCall}]

\* ------------------------------------------------- bookings that are served
\* the call whose locking read waits for a row that the transaction it waits
\* for holds
WaitsFor(c) ==
    IF /\ pc[c] = "lock"
       /\ req[c].cartItems[idx[c]].tier \in Tiers
       /\ rowLock[req[c].cartItems[idx[c]].tier] \notin {NoCall, c}
    THEN rowLock[req[c].cartItems[idx[c]].tier]
    ELSE NoCall

NextLive ==
    \E c \in Calls :
        \/ \E r \in PriceRequests : Receive(c, r)
        \/ GetClient(c)
        \/ GetClientFail(c)
        \/ ExpressError(c)
        \/ Begin(c)
        \/ LockRead(c)
        \/ InsertOrder(c)
        \/ InsertItem(c)
        \/ UpdateInventory(c)
        \/ Commit(c)
        \/ Rollback(c)
        \/ Fault(c)
        \/ Catch(c)

\* the database answers the awaited query of call c and the event loop runs the
\* handler on to its next await
Step(c) ==
    \/ GetClient(c)
    \/ Begin(c)
    \/ LockRead(c)
    \/ InsertOrder(c)
    \/ InsertItem(c)
    \/ UpdateInventory(c)
    \/ Commit(c)
    \/ Rollback(c)
    \/ Catch(c)

\* PostgreSQL finds call c in a cycle of lock waits and rejects its locking read
DeadlockAbort(c) ==
    /\ WaitsFor(c) # NoCall
    /\ WaitsFor(WaitsFor(c)) = c
    /\ Fault(c)

\* every call is served, and a deadlock is detected
SpecLive ==
    /\ Init
    /\ [][NextLive]_vars
    /\ \A c \in Calls : WF_vars(Step(c)) /\ WF_vars(DeadlockAbort(c))

\* the call that is served while the handlers of the other calls may stall
Waiter == 1
SpecWait ==
    /\ Init
    /\ [][NextLive]_vars
    /\ WF_vars(Step(Waiter))
    /\ \A c \in Calls : WF_vars(DeadlockAbort(c))

\* ------------------------------------------------------------------ claims

Done(c) == pc[c] = "done"
Successes == {c \in Calls : resp[c].status = 201}
Received == {c \in Calls : pc[c] # "idle"}

\* C1: in every reachable state every tier has
\* 0 <= quantity_available <= total_quantity.
C1_AvailableWithinTotal ==
    \A t \in Tiers :
        /\ 0 <= tickets[t].quantity_available
        /\ tickets[t].quantity_available <= tickets[t].total_quantity

\* every request received so far carries the one-item cart [{tier: t, quantity: q}]
AllCartsAre(t, q) ==
    \A c \in Received :
        /\ req[c].cartKind = "array"
        /\ req[c].cartItems = <<[tier |-> t, quantity |-> q]>>

\* C2: when all book calls ask for the same quantity q > 0 of the same single
\* tier, seeded with A tickets, at most A \div q of them succeed, and the tier's
\* quantity_available is never below 0, neither as committed nor as any of the
\* transactions reads it.
C2_NoOversell ==
    \A t \in Tiers, q \in 1..MaxQty :
        AllCartsAre(t, q) =>
            /\ Cardinality(Successes) <= SeedTickets[t].quantity_available \div q
            /\ tickets[t].quantity_available >= 0
            /\ \A c \in Calls : TxAvailable(c, t) >= 0

C2_Witness ==
    \E t \in Tiers, q \in 1..MaxQty :
        /\ AllCartsAre(t, q)
        /\ \A c \in Calls : Done(c)
        /\ Cardinality(Successes) = SeedTickets[t].quantity_available \div q
        /\ Cardinality(Successes) >= 1
        /\ \E c \in Calls : resp[c].status = 409

PaidOrderIds == {orders[k].id : k \in {j \in DOMAIN orders : orders[j].status = "PAID"}}

RECURSIVE SumPaidQuantity(_, _)
\* sum of quantity over the rows of order_items that reference tier t and belong
\* to a PAID order
SumPaidQuantity(rows, t) ==
    IF rows = <<>> THEN 0
    ELSE (IF Head(rows).ticket_tier = t /\ Head(rows).order_id \in PaidOrderIds
          THEN Head(rows).quantity ELSE 0)
         + SumPaidQuantity(Tail(rows), t)

\* C3: for every tier, total_quantity - quantity_available equals the sum of
\* quantity over the order_items rows of PAID orders that reference the tier.
C3_Conservation ==
    \A t \in Tiers :
        tickets[t].total_quantity - tickets[t].quantity_available
            = SumPaidQuantity(order_items, t)

C3_Witness ==
    /\ \E k \in DOMAIN order_items : order_items[k].quantity = 2
    /\ \E t \in Tiers : tickets[t].quantity_available < tickets[t].total_quantity

\* rows of the tables that call c's order owns
OrderRowsOf(c) == {k \in DOMAIN orders : orders[k].id = c}
ItemRowsOf(c) == {k \in DOMAIN order_items : order_items[k].order_id = c}
HasNoRows(c) == OrderRowsOf(c) = {} /\ ItemRowsOf(c) = {}
HoldsNoLock(c) == \A t \in Tiers : rowLock[t] # c
HasNoWrites(c) ==
    /\ txn[c].order = <<>>
    /\ txn[c].items = <<>>
    /\ \A t \in Tiers : txn[c].dec[t] = 0

RECURSIVE CartQuantity(_, _)
\* the quantity a cart asks of tier t, summed over its items
CartQuantity(cart, t) ==
    IF cart = <<>> THEN 0
    ELSE (IF Head(cart).tier = t THEN Head(cart).quantity ELSE 0)
         + CartQuantity(Tail(cart), t)

RECURSIVE CommittedQuantity(_, _)
\* the quantity of tier t in the carts of the calls 1..n that committed
CommittedQuantity(n, t) ==
    IF n = 0 THEN 0
    ELSE (IF resp[n].status = 201 THEN CartQuantity(req[n].cartItems, t) ELSE 0)
         + CommittedQuantity(n - 1, t)

\* C4: a book call that does not commit (unknown tier, insufficient stock,
\* payment declined, or a fault at any step) leaves no orders row and no
\* order_items row, and every tier's quantity_available is what the committed
\* calls alone account for.
C4_Atomicity ==
    /\ \A c \in Calls : resp[c].status # 201 => HasNoRows(c)
    /\ \A t \in Tiers :
           tickets[t].quantity_available
               = SeedTickets[t].quantity_available - CommittedQuantity(NumCalls, t)

C4_Witness ==
    \E c \in Calls :
        /\ Done(c)
        /\ resp[c].status = 500
        /\ resp[c].message = "COMMIT"
        /\ Len(req[c].cartItems) = 2
        /\ HasNoRows(c)

\* C5: when every call asks for the same q of one tier seeded with A tickets,
\* q <= A < 2q, all calls have ended, and none was refused by the payment gate
\* or hit by a fault, exactly one call succeeded, its order is PAID, and every
\* other call failed with InsufficientStock (409).
C5_ExactlyOneWins ==
    \A t \in Tiers, q \in 1..MaxQty :
        ( /\ q <= SeedTickets[t].quantity_available
          /\ SeedTickets[t].quantity_available < 2 * q
          /\ Received = Calls
          /\ AllCartsAre(t, q)
          /\ \A c \in Calls :
                 Done(c) /\ resp[c].error \notin {"InvalidRequest", "PaymentFailed", "Fault",
                                                    "Unhandled"} )
        => \E c \in Calls :
               /\ resp[c].status = 201
               /\ \E k \in OrderRowsOf(c) : orders[k].status = "PAID"
               /\ \A d \in Calls \ {c} :
                      resp[d].status = 409 /\ resp[d].error = "InsufficientStock"

C5_Witness ==
    /\ AllCartsAre("VIP", 2)
    /\ \A c \in Calls : Done(c)
    /\ \E c \in Calls : resp[c].status = 201
    /\ \E c \in Calls : resp[c].status = 409

\* C6: a call invokes the payment gate at most once; when it does, every cart
\* item has been locked and has passed the quantity check and the transaction
\* has written nothing; and a transaction holds writes only after the gate
\* returned accept.
C6_PaymentOrder ==
    [][\A c \in Calls :
          /\ payCount'[c] <= 1
          /\ payCount'[c] # payCount[c] =>
                 /\ HasNoWrites(c) /\ txn'[c] = txn[c]
                 /\ Len(orderItems'[c]) = Len(req[c].cartItems)
                 /\ \A k \in DOMAIN req[c].cartItems :
                        LET item == req[c].cartItems[k] IN
                        /\ item.tier \in Tiers
                        /\ rowLock'[item.tier] = c
                        /\ item.quantity <= tickets[item.tier].quantity_available
          /\ ~HasNoWrites(c)' => paymentSuccess'[c] = "accept"
      ]_vars

C6_Witness ==
    \E c \in Calls :
        /\ payCount[c] = 1
        /\ paymentSuccess[c] = "accept"
        /\ Len(req[c].cartItems) = 2
        /\ txn[c].items # <<>>

\* C7: once the payment gate declined a call, its transaction never holds a
\* write, no step of the call changes the tables, no orders or order_items row
\* of the call exists, and (unless the ROLLBACK itself is hit by a fault) the
\* call ends with the payment error.
C7_DeclinedLeavesNothing ==
    [][\A c \in Calls :
          paymentSuccess'[c] = "decline" =>
              /\ HasNoWrites(c)'
              /\ HasNoRows(c)'
              /\ pc'[c] # pc[c] => db' = db
              /\ (pc'[c] = "done" /\ resp'[c].error # "Fault") =>
                     resp'[c].status = 400 /\ resp'[c].error = "PaymentFailed"
      ]_vars

C7_Witness ==
    \E c \in Calls :
        /\ Done(c)
        /\ paymentSuccess[c] = "decline"
        /\ resp[c].error = "PaymentFailed"
        /\ Len(req[c].cartItems) = 2
        /\ req[c].cartItems[1].tier # req[c].cartItems[2].tier
        /\ \A t \in Tiers : tickets[t].quantity_available = SeedTickets[t].quantity_available

\* a valid request whose cart names a tier that is not in table tickets
NamesUnknownTier(c) ==
    /\ c \in Received
    /\ ValidRequest(req[c])
    /\ \E k \in DOMAIN req[c].cartItems : req[c].cartItems[k].tier \notin Tiers

C9_InsufficientStock ==
    [][\A c \in Calls :
          /\ (pc'[c] = "ROLLBACK" /\ pending'[c].error = "InsufficientStock") =>
                 /\ pending'[c].status = 409
                 /\ pending'[c].tier \in Tiers
                 /\ rowLock'[pending'[c].tier] = c
                 /\ pending'[c].available = tickets'[pending'[c].tier].quantity_available
                 /\ pending'[c].requested > pending'[c].available
                 /\ \E k \in DOMAIN req'[c].cartItems :
                        req'[c].cartItems[k] = [tier |-> pending'[c].tier,
                                                 quantity |-> pending'[c].requested]
                 /\ HasNoWrites(c)'
                 /\ pc'[c] # pc[c] => db' = db
          /\ (pc[c] = "ROLLBACK" /\ pending[c].error = "InsufficientStock"
                  /\ pc'[c] = "done") =>
                 /\ resp'[c] = pending[c]
                 /\ db' = db
                 /\ HasNoRows(c)'
      ]_vars

C9_Witness ==
    \E c \in Calls :
        /\ Done(c)
        /\ resp[c].status = 409
        /\ Len(req[c].cartItems) = 2
        /\ resp[c].tier = req[c].cartItems[2].tier
        /\ req[c].cartItems[1].tier # req[c].cartItems[2].tier

\* req.body with a missing or empty userId, or cartItems missing, not an array, or empty
BadRequest(r) == r.userId = "" \/ r.cartKind # "array" \/ Len(r.cartItems) = 0

\* C10: a request with a missing or empty userId, or with cartItems missing,
\* not an array or empty, is answered 400 in the step that receives it: no pool
\* client is taken, no transaction is opened, no lock is taken and no table
\* changes.
C10_InvalidInput ==
    [][\A c \in Calls :
          (c \in Received' /\ BadRequest(req'[c])) =>
              /\ pc'[c] = "done"
              /\ resp'[c].status = 400
              /\ resp'[c].error = "InvalidRequest"
              /\ c \notin checkedOut'
              /\ txn'[c] = NoTxn
              /\ HoldsNoLock(c)'
              /\ pc'[c] # pc[c] => (db' = db /\ checkedOut' = checkedOut /\ rowLock' = rowLock)
      ]_vars

C10_Witness ==
    /\ \E c \in Calls :
          Done(c) /\ resp[c].error = "InvalidRequest" /\ req[c].userId = ""
              /\ req[c].cartItems # <<>>
    /\ \E c \in Calls :
          Done(c) /\ resp[c].error = "InvalidRequest" /\ req[c].userId # ""
              /\ req[c].cartKind = "array" /\ req[c].cartItems = <<>>

\* a received request whose cart is an array with an item of quantity <= 0
HasNonPositiveQuantity(c) ==
    /\ c \in Received
    /\ req[c].userId # ""
    /\ req[c].cartKind = "array"
    /\ \E k \in DOMAIN req[c].cartItems : req[c].cartItems[k].quantity <= 0

\* C11: a request with a cart item of quantity <= 0 is rejected as invalid
\* input before any transaction opens: it takes no client, writes nothing and
\* never commits an order.
C11_NonPositiveRejected ==
    \A c \in Calls :
        HasNonPositiveQuantity(c) =>
            /\ c \notin checkedOut
            /\ HasNoWrites(c)
            /\ resp[c].status # 201
            /\ HasNoRows(c)

\* C12: no two concurrent bookings ever wait each for a row lock the other
\* holds (locks being taken in one global order whatever the cart's order).
C12_NoCircularWait ==
    \A c, d \in Calls : ~(c # d /\ WaitsFor(c) = d /\ WaitsFor(d) = c)

\* call c's open transaction has read tier t with its locking read
HasRead(c, t) ==
    /\ txn[c].open
    /\ \/ \E k \in DOMAIN orderItems[c] : orderItems[c][k].tier = t
       \/ txn[c].dec[t] # 0
       \/ pc[c] = "ROLLBACK" /\ pending[c].error = "InsufficientStock"
              /\ pending[c].tier = t

\* C13: for one tier the read-validate-decrement sequences of different
\* bookings never overlap: a transaction that has read a tier holds its row
\* lock until it ends, so no two open transactions have read the same tier,
\* and every quantity a transaction validated is within the committed
\* quantity_available, which holds the decrements of all earlier commits.
C13_Linearized ==
    \A c \in Calls, t \in Tiers :
        HasRead(c, t) =>
            /\ rowLock[t] = c
            /\ \A d \in Calls \ {c} : ~HasRead(d, t)
            /\ \A k \in DOMAIN orderItems[c] :
                   orderItems[c][k].tier = t =>
                       orderItems[c][k].quantity <= tickets[t].quantity_available

C13_Witness ==
    \E c, d \in Calls :
        /\ c # d
        /\ resp[c].status = 201
        /\ CartQuantity(req[c].cartItems, "VIP") = 1
        /\ HasRead(d, "VIP")
        /\ pc[d] = "COMMIT"
        /\ tickets["VIP"].quantity_available = 1

\* C14: every UPDATE that decrements a tier is executed by a transaction that
\* holds the tier's row lock, and the quantity it takes is <= the tier's
\* quantity_available as that UPDATE finds it.
C14_DecrementWithinAvailable ==
    [][\A c \in Calls, t \in Tiers :
          (pc[c] = "update" /\ txn'[c].dec[t] # txn[c].dec[t]) =>
              /\ rowLock[t] = c
              /\ txn'[c].dec[t] - txn[c].dec[t] <= TxAvailable(c, t)
      ]_vars

\* call c's locking read is sent and cannot return
Blocked(c) == pc[c] = "lock" /\ ~ENABLED LockRead(c)

\* C15: a locking read waits only while another open transaction, whose cart
\* names the same tier, holds that tier's row lock; bookings whose carts share
\* no tier never block each other.
C15_BlockedOnlyBySameTier ==
    \A c \in Calls :
        Blocked(c) =>
            LET t == req[c].cartItems[idx[c]].tier IN
            /\ t \in Tiers
            /\ \E d \in Calls \ {c} :
                   /\ rowLock[t] = d
                   /\ txn[d].open
                   /\ \E k \in DOMAIN req[d].cartItems : req[d].cartItems[k].tier = t

C15_Witness ==
    \E c, d \in Calls :
        /\ c # d
        /\ rowLock["VIP"] = c /\ rowLock["GA"] = d
        /\ req[c].cartItems = <<[tier |-> "VIP", quantity |-> 1]>>
        /\ req[d].cartItems = <<[tier |-> "GA", quantity |-> 1]>>
        /\ pc[c] = "COMMIT" /\ pc[d] = "COMMIT"

\* sum of quantity * price_at_purchase over the order_items rows of order id
RECURSIVE ItemsAmount(_, _)
ItemsAmount(rows, id) ==
    IF rows = <<>> THEN 0
    ELSE (IF Head(rows).order_id = id
          THEN Head(rows).quantity * Head(rows).price_at_purchase ELSE 0)
         + ItemsAmount(Tail(rows), id)

\* C16: in every reachable state, the total_amount of every committed order
\* equals the sum over its order_items rows of quantity * price_at_purchase.
C16_TotalIsSumOfItems ==
    \A k \in DOMAIN orders :
        orders[k].total_amount = ItemsAmount(order_items, orders[k].id)

C16_Witness ==
    \E k \in DOMAIN orders :
        /\ orders[k].total_amount = 2 * VipPriceCents
        /\ \E j \in DOMAIN order_items :
               /\ order_items[j].order_id = orders[k].id
               /\ order_items[j].quantity = 2
               /\ order_items[j].price_at_purchase = VipPriceCents

\* C17: every order_items row carries as price_at_purchase the price_usd that
\* the locking read of its tier returned in the same transaction (the row stays
\* locked, so it is the tier's price_usd until the transaction ends), and no
\* step, a later change of price_usd included, changes the price_at_purchase of
\* a committed row or the total_amount of a committed order.
C17_PriceAtPurchase ==
    [][/\ \A c \in Calls :
            /\ \A k \in DOMAIN orderItems[c] :
                   orderItems[c][k].priceAtPurchase =
                       tickets[orderItems[c][k].tier].price_usd
            /\ \A k \in DOMAIN txn[c].items :
                   txn[c].items[k].price_at_purchase =
                       tickets[txn[c].items[k].ticket_tier].price_usd
       /\ DOMAIN order_items \subseteq DOMAIN order_items'
       /\ DOMAIN orders \subseteq DOMAIN orders'
       /\ \A k \in DOMAIN order_items :
              order_items'[k].price_at_purchase = order_items[k].price_at_purchase
       /\ \A k \in DOMAIN orders :
              orders'[k].total_amount = orders[k].total_amount
       /\ \A k \in DOMAIN order_items' \ DOMAIN order_items :
              order_items'[k].price_at_purchase =
                  tickets[order_items'[k].ticket_tier].price_usd
      ]_vars

C17_Witness ==
    \E k \in DOMAIN order_items, j \in DOMAIN orders :
        /\ orders[j].id = order_items[k].order_id
        /\ Cardinality(ItemRowsOf(orders[j].id)) = 1
        /\ order_items[k].price_at_purchase = VipPriceCents
        /\ orders[j].total_amount = VipPriceCents
        /\ tickets[order_items[k].ticket_tier].price_usd = FrontRowPriceCents

\* the step in which call c answers 201
Succeeds(c) == resp[c].status # 201 /\ resp'[c].status = 201

\* C18: a successful call reduces the quantity_available of each tier by
\* exactly the quantities its cart asks of that tier, leaves every other tier
\* as it was, and changes no total_quantity and no price_usd.
C18_ExactDecrement ==
    [][\A c \in Calls :
          Succeeds(c) =>
              \A t \in Tiers :
                  /\ tickets'[t].quantity_available =
                         tickets[t].quantity_available - CartQuantity(req[c].cartItems, t)
                  /\ tickets'[t].total_quantity = tickets[t].total_quantity
                  /\ tickets'[t].price_usd = tickets[t].price_usd
      ]_vars

C18_Witness ==
    \E c \in Successes :
        /\ req[c].cartItems = <<[tier |-> "VIP", quantity |-> 2]>>
        /\ tickets["VIP"].quantity_available = VipSeed - 2
        /\ tickets["VIP"].total_quantity = VipSeed
        /\ tickets["GA"].quantity_available = GaSeed

\* C19: a successful call adds exactly one orders row, with status PAID and
\* the caller's userId, and one order_items row per cart item, in cart order;
\* the receipt it returns (orderId, userId, totalAmount, items, status) equals
\* what was persisted; and no orders row with a status other than PAID is
\* ever written, inside a transaction or committed.
C19_OneOrderPerSuccess ==
    [][/\ \A k \in DOMAIN orders : orders[k].status = "PAID"
       /\ \A c \in Calls : \A k \in DOMAIN txn[c].order : txn[c].order[k].status = "PAID"
       /\ \A c \in Calls :
              Succeeds(c) =>
                  LET cart == req[c].cartItems
                      n == Len(orders)
                      m == Len(order_items)
                      r == resp'[c]
                  IN  /\ Len(orders') = n + 1
                      /\ orders'[n + 1].status = "PAID"
                      /\ orders'[n + 1].user_id = req[c].userId
                      /\ r.orderId = orders'[n + 1].id
                      /\ r.userId = orders'[n + 1].user_id
                      /\ r.totalAmount = orders'[n + 1].total_amount
                      /\ r.orderStatus = orders'[n + 1].status
                      /\ Len(order_items') = m + Len(cart)
                      /\ Len(r.items) = Len(cart)
                      /\ \A k \in DOMAIN cart :
                             LET row == order_items'[m + k] IN
                             /\ row.order_id = r.orderId
                             /\ row.ticket_tier = cart[k].tier
                             /\ row.quantity = cart[k].quantity
                             /\ r.items[k].tier = row.ticket_tier
                             /\ r.items[k].quantity = row.quantity
                             /\ r.items[k].priceAtPurchase = row.price_at_purchase
      ]_vars

C19_Witness ==
    \E c \in Successes :
        /\ req[c].userId = "user-1"
        /\ Len(req[c].cartItems) = 2
        /\ Cardinality(OrderRowsOf(c)) = 1
        /\ Cardinality(ItemRowsOf(c)) = 2
        /\ \A k \in OrderRowsOf(c) : orders[k].status = "PAID"

\* C20: the order ledger is append-only: no step changes or removes a
\* committed orders row or a committed order_items row.
C20_AppendOnly ==
    [][/\ Len(orders) <= Len(orders')
       /\ Len(order_items) <= Len(order_items')
       /\ \A k \in DOMAIN orders : orders'[k] = orders[k]
       /\ \A k \in DOMAIN order_items : order_items'[k] = order_items[k]
      ]_vars

C20_Witness ==
    /\ Len(orders) = 2
    /\ Len(order_items) >= 2
    /\ \A c \in Calls : pc[c] = "done" /\ resp[c].status = 201

\* the committed orders of user u, and the committed items of order id
OrdersOfUser(u) == {orders[k] : k \in {j \in DOMAIN orders : orders[j].user_id = u}}
ItemsOfOrder(id) == SelectSeq(order_items, LAMBDA row : row.order_id = id)
Range(seq) == {seq[k] : k \in DOMAIN seq}

\* C21: GET /api/orders/:userId returns every committed order of the user (the
\* orders query returns each of them once, none for a user without orders),
\* each with all of its own order_items embedded, and for any two adjacent
\* entries the createdAt of the earlier entry is >= that of the later one.
C21_ListsOrdersNewestFirst ==
    [][/\ (listing.pc = "orders" /\ listing'.pc # "orders" /\ listing'.status # 500) =>
            LET result == IF listing'.pc = "done" THEN <<>> ELSE listing'.userOrders
            IN  /\ Range(result) = OrdersOfUser(listing.userId)
                /\ Len(result) = Cardinality(OrdersOfUser(listing.userId))
       /\ (listing.pc = "items" /\ listing'.pc = "done" /\ listing'.status = 200) =>
            LET data == listing'.data
            IN  /\ Len(data) = Len(listing.userOrders)
                /\ \A k \in DOMAIN data :
                       /\ data[k].order = listing.userOrders[k]
                       /\ data[k].items = ItemsOfOrder(data[k].order.id)
                       /\ data[k].items # <<>>
                /\ \A k \in DOMAIN data :
                       k + 1 \in DOMAIN data =>
                           data[k].order.created_at >= data[k + 1].order.created_at
      ]_vars

C21_Witness ==
    /\ listing.pc = "done" /\ listing.status = 200
    /\ Len(listing.data) = 2
    /\ listing.data[1].order.created_at > listing.data[2].order.created_at
    /\ \A k \in DOMAIN listing.data : Len(listing.data[k].items) = 1

\* C22: GET /api/orders/:userId never returns an order of another user, nor
\* an order item of another order than the one it is embedded in.
C22_OnlyOwnOrders ==
    /\ \A k \in DOMAIN listing.userOrders :
           listing.userOrders[k].user_id = listing.userId
    /\ \A k \in DOMAIN listing.data :
           /\ listing.data[k].order.user_id = listing.userId
           /\ \A j \in DOMAIN listing.data[k].items :
                  listing.data[k].items[j].order_id = listing.data[k].order.id

C22_Witness ==
    /\ listing.pc = "done" /\ listing.status = 200
    /\ Len(listing.data) = 1
    /\ Len(listing.data[1].items) = 1
    /\ \E k \in DOMAIN orders : orders[k].user_id # listing.userId
    /\ Len(order_items) = 2

ClientError == (400..499) \ {409}
ServiceError == 500..599

\* C23: each failure kind of book answers in its status category: invalid
\* input and unknown tier a client error (4xx other than 409), insufficient
\* stock 409, payment declined and infrastructure failure a service error (5xx).
C23_StatusCategories ==
    \A c \in Calls :
        /\ resp[c].error \in {"InvalidRequest", "InvalidTier"} => resp[c].status \in ClientError
        /\ resp[c].error = "InsufficientStock" => resp[c].status = 409
        /\ resp[c].error \in {"PaymentFailed", "Fault"} => resp[c].status \in ServiceError

\* the step in which the awaited query of call c rejects
Faults(c) == pc[c] \in QueryPcs /\ pc'[c] = "catch"
\* the step in which the catch block of call c has rolled back and answers
Caught(c) == pc[c] = "catch" /\ pc'[c] = "done"

\* C24: a fault thrown by any query of the booking transaction changes no
\* table and leads into the catch block, whose rollback publishes nothing of
\* the call (no order, no order item, no decrement), closes the transaction
\* and answers with a failure, whatever the call had inserted and decremented.
C24_FaultRollsBack ==
    [][\A c \in Calls :
          /\ Faults(c) => db' = db
          /\ Caught(c) =>
                 /\ db' = db
                 /\ ~txn'[c].open /\ HasNoWrites(c)'
                 /\ resp'[c].status \in ServiceError
                 /\ OrderRowsOf(c) = {} /\ ItemRowsOf(c) = {}
      ]_vars

C24_Witness ==
    \E c \in Calls :
        /\ Done(c)
        /\ resp[c].error = "Fault"
        /\ resp[c].message = "update"
        /\ req[c].cartItems = <<[tier |-> "VIP", quantity |-> 1],
                                [tier |-> "GA", quantity |-> 1]>>
        /\ tickets = SeedTickets
        /\ orders = <<>> /\ order_items = <<>>

\* C25: a call that has ended holds no row lock, and a row lock leaves a
\* transaction only in the step that ends it (COMMIT or ROLLBACK), together
\* with every other lock the transaction holds.
C25_LocksReleasedAtEnd ==
    [][\A c \in Calls :
          /\ (Done(c) \/ ~txn[c].open) => HoldsNoLock(c)
          /\ (\E t \in Tiers : rowLock[t] = c /\ rowLock'[t] # c) =>
                 /\ txn[c].open /\ ~txn'[c].open
                 /\ pc[c] \in {"COMMIT", "ROLLBACK", "catch"}
                 /\ \A t \in Tiers : rowLock'[t] # c
      ]_vars

C25_Witness ==
    \E c \in Calls :
        /\ Done(c)
        /\ resp[c].status \in {201, 409}
        /\ Len(req[c].cartItems) = 2
        /\ req[c].cartItems[1].tier = "VIP" /\ req[c].cartItems[2].tier = "GA"
        /\ \A t \in Tiers : rowLock[t] = NoCall

\* C28: the response of a call that fails with an infrastructure failure
\* carries a generic error value only, never the text of the fault thrown.
C28_NoFaultText ==
    \A c \in Calls : resp[c].error = "Fault" => resp[c].message = ""

\* C30: a booking succeeds only if, for every tier, the sum of the quantities
\* its cart asks of that tier is <= the tier's quantity_available.
C30_RepeatedTierSummed ==
    [][\A c \in Calls :
          Succeeds(c) =>
              \A t \in Tiers :
                  CartQuantity(req[c].cartItems, t) <= tickets[t].quantity_available
      ]_vars

\* a step of one of the two read calls
ReadStep == listing' # listing \/ catalog' # catalog

\* C29: GET /api/catalog and GET /api/orders/:userId are pure reads: their
\* steps change no tier, order or order item and take no row lock, and each of
\* their queries can return whatever row locks in-flight bookings hold.
C29_PureReads ==
    [][/\ ReadStep => db' = db /\ rowLock' = rowLock /\ txn' = txn
       /\ catalog.pc = "select" => ENABLED CatalogSelect
       /\ listing.pc = "orders" => ENABLED ListOrders
       /\ listing.pc = "items" =>
              \A k \in DOMAIN listing.userOrders \ listing.fetched : ENABLED ListItems(k)
      ]_vars

C29_Witness ==
    /\ catalog.pc = "done" /\ catalog.status = 200
    /\ listing.pc = "done" /\ listing.status = 200 /\ Len(listing.data) = 1
    /\ \E c \in Calls :
           /\ rowLock["VIP"] = c
           /\ txn[c].dec["VIP"] = 1
           /\ OrderRowsOf(c) = {}
    /\ catalog.data["VIP"].quantityAvailable = VipSeed
    /\ catalog.data["GA"].quantityAvailable = GaSeed - 1

\* C26: when every call is served and the payment gate returns, a call whose
\* locking read waits stops waiting, and every call that holds a client ends
\* (commit or abort, its response sent): no bookings wait forever.
C26_NoWaitForever ==
    \A c \in Calls :
        /\ (WaitsFor(c) # NoCall) ~> (WaitsFor(c) = NoCall)
        /\ (c \in checkedOut) ~> (pc[c] = "done" /\ ~txn[c].open)

C26_Witness ==
    \E c, d \in Calls :
        /\ Done(c) /\ Done(d)
        /\ req[c].cartItems = <<[tier |-> "GA", quantity |-> 1]>>
        /\ req[d].cartItems = <<[tier |-> "GA", quantity |-> 1]>>
        /\ resp[c].status = 201
        /\ resp[d].status = 409 /\ resp[d].available = 0
        /\ \A t \in Tiers : rowLock[t] = NoCall

\* C27: a call that waits for a row lock does not wait without end while the
\* holder keeps the lock: after the timeout it aborts its transaction and
\* releases its locks.
C27_LockWaitTimesOut ==
    (WaitsFor(Waiter) # NoCall) ~> (WaitsFor(Waiter) = NoCall)

RECURSIVE OrdersQuantity(_, _)
\* the quantity of tier t that the first n committed orders took
OrdersQuantity(n, t) ==
    IF n = 0 THEN 0
    ELSE CartQuantity(req[orders[n].id].cartItems, t) + OrdersQuantity(n - 1, t)

\* C31: the quantities a catalog read returns are those of a committed state:
\* for some number n of committed bookings, every tier shows its seeded quantity
\* less what the first n committed bookings took of it.  So no decrement of an
\* open or aborted booking shows, and a committed booking of several tiers
\* shows in all of its tiers or in none.
C31_CatalogShowsCommitted ==
    (catalog.pc = "done" /\ catalog.status = 200) =>
        \E n \in 0..Len(orders) :
            \A t \in Tiers :
                catalog.data[t].quantityAvailable =
                    SeedTickets[t].quantity_available - OrdersQuantity(n, t)

C31_Witness ==
    /\ catalog.pc = "done" /\ catalog.status = 200
    /\ catalog.data["VIP"].quantityAvailable = VipSeed - 1
    /\ catalog.data["GA"].quantityAvailable = GaSeed - 1
    /\ \E c, d \in Calls :
           /\ resp[c].status = 201
           /\ Len(req[c].cartItems) = 2
           /\ txn[d].dec["VIP"] = 1
           /\ OrderRowsOf(d) = {}

\* the calls that have taken a client and have not yet returned
InFlight == {c \in Calls : pc[c] \in QueryPcs \cup {"catch"}}

C33_ExactlyOneResponse ==
    /\ \A c \in Calls : (pc[c] # "idle") ~> (resp[c].status # 0)
    /\ [][\A c \in Calls : resp[c].status # 0 => resp'[c] = resp[c]]_vars

\* C34: a run of the seed on a database that has the tier rows inserts no row
\* and changes none: the tickets table, with the quantity_available that the
\* bookings left, and the orders are the same after it as before.
C34_SeedIdempotent ==
    [][seedRuns' # seedRuns =>
           /\ tickets' = tickets
           /\ DOMAIN tickets' = Tiers
           /\ orders' = orders
           /\ order_items' = order_items]_vars

C34_Witness ==
    /\ seedRuns = MaxSeedRuns
    /\ tickets["VIP"].quantity_available = VipSeed - 1
    /\ tickets["GA"].quantity_available = GaSeed - 1
    /\ tickets["VIP"].total_quantity = VipSeed
    /\ Len(orders) = 1

\* C35: on the catalog page, once a catalog fetch has completed, every tier's
\* displayed quantityAvailable is at least 0, and together with the tier's
\* quantity in the cart it equals the quantityAvailable that the most
\* recently completed fetch returned.
C35_DisplayedPlusCart ==
    page.loaded =>
        \A t \in Tiers :
            /\ page.tickets[t] >= 0
            /\ page.tickets[t] + InCart(page.cart, t) = page.latest[t]

====
